---- MODULE Spec2Model ----
(***************************************************************************)
(* Model of examples/libtorchaudio/speech_recognition/build_pipeline.py:   *)
(* the argument parser, the Loader / Encoder / Decoder stage wrappers and  *)
(* the one-shot _main procedure that builds, self-tests and serializes the *)
(* three stages.                                                           *)
(*                                                                         *)
(* Python values are modelled as follows.  A str is a record               *)
(* [type |-> "str", chars |-> <<c1, ..., cn>>] of one-character strings,   *)
(* None is [type |-> "NoneType"].  The external libraries (fairseq, torch, *)
(* torchaudio, simple_ctc) are opaque: each call either returns or raises, *)
(* chosen nondeterministically.                                            *)
(***************************************************************************)
EXTENDS Integers, Sequences, FiniteSets, TLC

\* ------------------------------------------------------------------ bounds

\* Longest decoded audio file (in samples) given to Loader.forward in SpecLoader.
MaxSamples == 3

\* Longest best-hypothesis label sequence given to Decoder.forward in SpecDecoder.
MaxLabels == 2

\* Longest best hypothesis the beam search returns during the self-test of _main.
MaxHyp == 2

\* ------------------------------------------------------- python primitives

None == [type |-> "NoneType"]

Str(cs) == [type |-> "str", chars |-> cs]

\* bool(x) for the values an argparse option can hold: None and "" are falsy.
Truthy(x) == x.type = "str" /\ Len(x.chars) > 0

Range(s) == {s[i] : i \in 1..Len(s)}

RECURSIVE join(_)
\* ''.join(parts): the parts' characters, in order.
join(parts) ==
    IF parts = <<>> THEN <<>> ELSE Head(parts) \o join(Tail(parts))

\* Mutant of replace: only the first occurrence is replaced (count = 1).
replace_first(s, old, new) ==
    [i \in 1..Len(s) |->
        IF s[i] = old /\ (\A j \in 1..(i - 1) : s[j] # old) THEN new ELSE s[i]]

\* s.replace(old, new) for one-character old and new: every occurrence.
replace(s, old, new) == [i \in 1..Len(s) |-> IF s[i] = old THEN new ELSE s[i]]

\* Mutant of os_path_join: a missing directory is taken as the empty string.
os_path_join_NoneAsEmpty(a, b) ==
    IF a.type # "str" THEN [ok |-> TRUE, value |-> Str(b)]
    ELSE IF Len(a.chars) = 0 \/ a.chars[Len(a.chars)] = "/"
         THEN [ok |-> TRUE, value |-> Str(a.chars \o b)]
         ELSE [ok |-> TRUE, value |-> Str(a.chars \o <<"/">> \o b)]

\* posixpath.join(a, b) for a relative b: a TypeError when a is None.
os_path_join(a, b) ==
    IF a.type # "str" THEN [ok |-> FALSE, exc |-> "TypeError"]
    ELSE IF Len(a.chars) = 0 \/ a.chars[Len(a.chars)] = "/"
         THEN [ok |-> TRUE, value |-> Str(a.chars \o b)]
         ELSE [ok |-> TRUE, value |-> Str(a.chars \o <<"/">> \o b)]

loader_zip == <<"l", "o", "a", "d", "e", "r", ".", "z", "i", "p">>
decoder_zip == <<"d", "e", "c", "o", "d", "e", "r", ".", "z", "i", "p">>
encoder_zip == <<"e", "n", "c", "o", "d", "e", "r", ".", "z", "i", "p">>

\* ------------------------------------------------------------ Loader stage

\* The sample rate the Loader resamples to.
TargetRate == 16000

\* Decoded audio files: the native rate and the samples.
Rates == {8000, TargetRate, 48000}

RECURSIVE SeqsUpTo(_, _)
SeqsUpTo(S, n) ==
    IF n = 0 THEN {<<>>}
    ELSE LET shorter == SeqsUpTo(S, n - 1)
         IN shorter \cup {Append(s, x) : s \in {t \in shorter : Len(t) = n - 1}, x \in S}

AudioFiles == [rate : Rates, samples : SeqsUpTo({0, 1}, MaxSamples)]

\* torchaudio.load(path): the decoded waveform and its native sample rate.
\* The rate field of a waveform is the rate its samples are really at; the
\* tensor of the code does not carry it.
torchaudio_load(file) ==
    [waveform |-> [samples |-> file.samples, rate |-> file.rate],
     sample_rate |-> file.rate]

CeilDiv(a, b) == (a + b - 1) \div b

\* torchaudio.functional.resample(waveform, orig_freq, new_freq): the output has
\* ceil(new_freq * length / orig_freq) samples; the interpolation itself is
\* abstracted to a zero-order hold.  The samples end up at the rate
\* rate * new_freq / orig_freq, which is new_freq exactly when orig_freq is the
\* rate the samples were at.
resample(waveform, orig_freq, new_freq) ==
    LET n == CeilDiv(new_freq * Len(waveform.samples), orig_freq)
    IN [samples |-> [i \in 1..n |->
                        waveform.samples[((i - 1) * orig_freq) \div new_freq + 1]],
        rate |-> (waveform.rate * new_freq) \div orig_freq]

\* Mutant of Loader_forward: the two rates given to resample are swapped.
Loader_forward_SwappedRates(file) ==
    LET loaded == torchaudio_load(file)
    IN IF loaded.sample_rate # TargetRate
       THEN [waveform |-> resample(loaded.waveform, TargetRate, loaded.sample_rate),
             calls |-> <<"torchaudio.load", "resample">>]
       ELSE [waveform |-> loaded.waveform,
             calls |-> <<"torchaudio.load">>]

\* Loader.forward(audio_path) on a file that decodes: the returned waveform and
\* the library calls made.
Loader_forward(file) ==
    LET loaded == torchaudio_load(file)
    IN IF loaded.sample_rate # TargetRate
       THEN [waveform |-> resample(loaded.waveform, loaded.sample_rate, TargetRate),
             calls |-> <<"torchaudio.load", "resample">>]
       ELSE [waveform |-> loaded.waveform,
             calls |-> <<"torchaudio.load">>]

\* ----------------------------------------------------------- Decoder stage

\* _get_decoder's label alphabet, in index order.
labels ==
    << <<"<", "s", ">">>, <<"<", "p", "a", "d", ">">>, <<"<", "/", "s", ">">>,
       <<"<", "u", "n", "k", ">">>, <<"|">>, <<"E">>, <<"T">>, <<"A">>, <<"O">>,
       <<"N">>, <<"I">>, <<"H">>, <<"S">>, <<"R">>, <<"D">>, <<"L">>, <<"U">>,
       <<"M">>, <<"W">>, <<"C">>, <<"F">>, <<"G">>, <<"Y">>, <<"P">>, <<"B">>,
       <<"V">>, <<"K">>, <<"'">>, <<"X">>, <<"J">>, <<"Q">>, <<"Z">> >>

\* Decoder.forward(emission), given what self.decoder.decode(emission) returned:
\* label_sequences[batch][beam] is a sequence of labels.
Decoder_forward(result) ==
    Str(replace(join(result.label_sequences[1][1]), "|", " "))

\* A decode result whose best hypothesis is hyp.
DecodeResult(hyp) == [label_sequences |-> << <<hyp>> >>]

\* ----------------------------------------------------------- Encoder stage

\* Encoder.forward(waveform): the wrapped model's first output.  The emission
\* has one row per frame (a frame per sample in the model's units) and records
\* which encoder computed it.
Encoder_forward(enc, w) ==
    [type |-> "Tensor", frames |-> Len(w.samples), quantized |-> enc.quantized]

\* ------------------------------------------------------- library operations

\* nn.Module.eval(): inference mode.
eval(m) == [m EXCEPT !.training = FALSE]

\* _load_fairseq_model's overrides: data is set only for a truthy data_dir.
\* import_fairseq_finetuned_model builds a fresh module, in training mode.
_get_model(model_file, dict_dir) ==
    [type |-> "Wav2Vec2Model", training |-> TRUE,
     data_override |-> IF Truthy(dict_dir) THEN dict_dir ELSE None]

\* Mutant of quantize_dynamic: the quantized copy is dropped and the
\* encoder given is kept.
quantize_dynamic_Discarded(enc) == enc

\* torch.quantization.quantize_dynamic(encoder, ...): a quantized copy.
quantize_dynamic(enc) == [enc EXCEPT !.quantized = TRUE]

\* torch.jit.script(module): the scripted module, not yet optimized.
torch_jit_script(m) == [of |-> m.type, quantized |-> m.quantized, optimized |-> FALSE]

\* torch.utils.mobile_optimizer.optimize_for_mobile(scripted).
optimize_for_mobile(s) == [s EXCEPT !.optimized = TRUE]

\* ------------------------------------------------------------------- state

VARIABLES
    argv,        \* the command line: the value each option would parse to
    pc,          \* the statement of _main (or of a stage call) to run next
    args,        \* argparse's namespace, None before _parse_args returns
    logging,     \* what _init_logging configured
    log,         \* the messages given to _LG.info, in order
    stderr,      \* diagnostics written on the way out
    exit_code,   \* -1 while running, then the process's exit status
    exc,         \* the exception that ended the run, or "none"
    model,       \* _main's model
    encoder,     \* _main's encoder
    audio,       \* the decoded content of the file given to the Loader
    waveform,    \* _main's waveform / the Loader's return value
    emission,    \* _main's emission
    hypothesis,  \* what the beam search returned to Decoder.forward
    transcript,  \* _main's transcript / the Decoder's return value
    scripted,    \* _main's scripted (the scripted Encoder)
    fs,          \* the files this run wrote: path -> [content, complete]
    calls        \* history: the calls made so far, in order

vars == <<argv, pc, args, logging, log, stderr, exit_code, exc, model, encoder,
          audio, waveform, emission, hypothesis, transcript, scripted, fs, calls>>

\* ------------------------------------------------------------------ inputs

ModelFiles == {None, Str(<<"m">>)}
DictDirs == {None, Str(<<"d">>)}
OutputPaths == {None, Str(<<>>), Str(<<"o", "u", "t">>), Str(<<"o", "u", "t", "/">>)}
TestFiles == {None, Str(<<>>), Str(<<"t">>)}

\* What each option parses to: None when a value option is omitted.
CommandLines ==
    [model_file : ModelFiles, dict_dir : DictDirs, output_path : OutputPaths,
     test_file : TestFiles, debug : BOOLEAN, quantize : BOOLEAN,
     optimize_for_mobile : BOOLEAN]

\* The content of the test file during a run of _main.
TestAudio ==
    {[rate |-> 16000, samples |-> <<0, 1, 1>>],
     [rate |-> 8000, samples |-> <<1>>],
     [rate |-> 48000, samples |-> <<0, 1, 1>>]}

\* The labels the self-test's best hypothesis is drawn from: "<s>", "|", "H".
HypLabels == {labels[1], labels[5], labels[12]}

Min(a, b) == IF a < b THEN a ELSE b

\* BeamSearchDecoder.decode(emission): CTC emits at most a label per frame.
BeamSearchDecoder_decode(em) ==
    {DecodeResult(h) : h \in SeqsUpTo(HypLabels, Min(MaxHyp, em.frames))}

\* ---------------------------------------------------------- initial states

NoObject == [type |-> "NoneType"]
NoAudio == [rate |-> 0, samples |-> <<>>]
NoWaveform == [samples |-> <<>>, rate |-> 0]

InitLocals ==
    /\ args = None
    /\ logging = NoObject
    /\ log = <<>>
    /\ stderr = <<>>
    /\ exit_code = -1
    /\ exc = "none"
    /\ model = NoObject
    /\ encoder = NoObject
    /\ waveform = NoWaveform
    /\ emission = NoObject
    /\ hypothesis = <<>>
    /\ transcript = None
    /\ scripted = NoObject
    /\ fs = <<>>
    /\ calls = <<>>

Init ==
    /\ argv \in CommandLines
    /\ pc = "parse_args"
    /\ audio = NoAudio
    /\ InitLocals

\* ----------------------------------------------------------------- _main

\* Mutant of Abort: the failure is swallowed and the statement runs again.
Abort_Retry(e) ==
    /\ pc' = pc
    /\ UNCHANGED <<exc, exit_code, stderr>>

\* An exception leaving _main: the interpreter prints the traceback and exits
\* with status 1.  Nothing is caught, nothing is cleaned up.
Abort(e) ==
    /\ pc' = "aborted"
    /\ exc' = e
    /\ exit_code' = 1
    /\ stderr' = Append(stderr, "Traceback")

\* Mutant of ParseArgs: --model-file is not required.
ParseArgs_ModelFileOptional ==
    /\ pc = "parse_args"
    /\ calls' = Append(calls, "_parse_args")
    /\ args' = argv
    /\ pc' = "init_logging"
    /\ UNCHANGED <<argv, logging, log, stderr, exit_code, exc, model, encoder, audio,
                   waveform, emission, hypothesis, transcript, scripted, fs>>

\* line 161: args = _parse_args().  argparse exits with status 2 and a usage
\* message when the required --model-file is missing.
ParseArgs ==
    /\ pc = "parse_args"
    /\ calls' = Append(calls, "_parse_args")
    /\ IF argv.model_file = None
       THEN /\ pc' = "exited"
            /\ exc' = "SystemExit"
            /\ exit_code' = 2
            /\ stderr' = Append(stderr, "usage")
            /\ UNCHANGED args
       ELSE /\ args' = argv
            /\ pc' = "init_logging"
            /\ UNCHANGED <<exc, exit_code, stderr>>
    /\ UNCHANGED <<argv, logging, log, model, encoder, audio, waveform, emission,
                   hypothesis, transcript, scripted, fs>>

\* line 162 and lines 192-198: _init_logging(args.debug).
InitLogging ==
    /\ pc = "init_logging"
    /\ logging' = [type |-> "logging",
                   level |-> IF args.debug THEN "DEBUG" ELSE "INFO",
                   format |-> IF ~args.debug THEN "message" ELSE "verbose"]
    /\ calls' = Append(calls, "_init_logging")
    /\ pc' = "get_model"
    /\ UNCHANGED <<argv, args, log, stderr, exit_code, exc, model, encoder, audio,
                   waveform, emission, hypothesis, transcript, scripted, fs>>

\* lines 163-164: loader = Loader(); model = _get_model(...).eval().  Loading
\* the checkpoint and converting it can each raise.
GetModel ==
    /\ pc = "get_model"
    /\ \/ /\ calls' = calls \o <<"Loader", "_load_fairseq_model">>
          /\ Abort("IOError")
          /\ UNCHANGED model
       \/ /\ calls' = calls \o <<"Loader", "_load_fairseq_model",
                                 "import_fairseq_finetuned_model">>
          /\ Abort("ConversionError")
          /\ UNCHANGED model
       \/ /\ calls' = calls \o <<"Loader", "_load_fairseq_model",
                                 "import_fairseq_finetuned_model", "eval">>
          /\ model' = eval(_get_model(args.model_file, args.dict_dir))
          /\ pc' = "build_stages"
          /\ UNCHANGED <<exc, exit_code, stderr>>
    /\ UNCHANGED <<argv, args, logging, log, encoder, audio, waveform, emission,
                   hypothesis, transcript, scripted, fs>>

\* lines 165-167: encoder = Encoder(model); decoder = _get_decoder(); log it.
BuildStages ==
    /\ pc = "build_stages"
    /\ encoder' = [type |-> "Encoder", encoder |-> model, quantized |-> FALSE]
    /\ log' = Append(log, [msg |-> "encoder", arg |-> <<>>])
    /\ calls' = calls \o <<"Encoder", "_get_decoder">>
    /\ pc' = "quantize"
    /\ UNCHANGED <<argv, args, logging, stderr, exit_code, exc, model, audio,
                   waveform, emission, hypothesis, transcript, scripted, fs>>

\* lines 169-174: the optional dynamic quantization of the encoder.
Quantize ==
    /\ pc = "quantize"
    /\ IF args.quantize
       THEN \/ /\ log' = Append(log, [msg |-> "Quantizing the model", arg |-> <<>>])
               /\ calls' = calls \o <<"__prepare_scriptable__", "quantize_dynamic">>
               /\ Abort("RuntimeError")
               /\ UNCHANGED encoder
            \/ /\ log' = log \o <<[msg |-> "Quantizing the model", arg |-> <<>>],
                                  [msg |-> "encoder", arg |-> <<>>]>>
               /\ calls' = calls \o <<"__prepare_scriptable__", "quantize_dynamic">>
               /\ encoder' = quantize_dynamic(encoder)
               /\ pc' = "test_load"
               /\ UNCHANGED <<exc, exit_code, stderr>>
       ELSE /\ pc' = "test_load"
            /\ UNCHANGED <<log, calls, encoder, exc, exit_code, stderr>>
    /\ UNCHANGED <<argv, args, logging, model, audio, waveform, emission,
                   hypothesis, transcript, scripted, fs>>

\* lines 177-179: the self-test is skipped for a falsy test_file; otherwise the
\* Loader decodes the file, which can raise.
TestLoad ==
    /\ pc = "test_load"
    /\ IF Truthy(args.test_file)
       THEN \/ /\ log' = Append(log, [msg |-> "Testing with", arg |-> args.test_file.chars])
               /\ calls' = calls \o <<"loader", "torchaudio.load">>
               /\ Abort("DecodingError")
               /\ UNCHANGED <<audio, waveform>>
            \/ \E f \in TestAudio :
               /\ log' = Append(log, [msg |-> "Testing with", arg |-> args.test_file.chars])
               /\ audio' = f
               /\ waveform' = Loader_forward(f).waveform
               /\ calls' = calls \o <<"loader">> \o Loader_forward(f).calls
               /\ pc' = "test_encode"
               /\ UNCHANGED <<exc, exit_code, stderr>>
       ELSE /\ pc' = "save_loader"
            /\ UNCHANGED <<log, calls, audio, waveform, exc, exit_code, stderr>>
    /\ UNCHANGED <<argv, args, logging, model, encoder, emission, hypothesis,
                   transcript, scripted, fs>>

\* line 180: emission = encoder(waveform).
TestEncode ==
    /\ pc = "test_encode"
    /\ calls' = Append(calls, "encoder")
    /\ \/ /\ Abort("RuntimeError")
          /\ UNCHANGED emission
       \/ /\ emission' = Encoder_forward(encoder, waveform)
          /\ pc' = "test_decode"
          /\ UNCHANGED <<exc, exit_code, stderr>>
    /\ UNCHANGED <<argv, args, logging, log, model, encoder, audio, waveform,
                   hypothesis, transcript, scripted, fs>>

\* line 181: transcript = decoder(emission).
TestDecode ==
    /\ pc = "test_decode"
    /\ calls' = Append(calls, "decoder")
    /\ \/ /\ Abort("RuntimeError")
          /\ UNCHANGED <<hypothesis, transcript>>
       \/ \E r \in BeamSearchDecoder_decode(emission) :
          /\ hypothesis' = r.label_sequences[1][1]
          /\ transcript' = Decoder_forward(r)
          /\ pc' = "test_log"
          /\ UNCHANGED <<exc, exit_code, stderr>>
    /\ UNCHANGED <<argv, args, logging, log, model, encoder, audio, waveform,
                   emission, scripted, fs>>

\* Mutant of TestLog: the transcript is computed and not logged.
TestLog_NotLogged ==
    /\ pc = "test_log"
    /\ pc' = "save_loader"
    /\ UNCHANGED <<argv, args, logging, log, stderr, exit_code, exc, model, encoder,
                   audio, waveform, emission, hypothesis, transcript, scripted, fs,
                   calls>>

\* line 182: _LG.info(transcript).
TestLog ==
    /\ pc = "test_log"
    /\ log' = Append(log, [msg |-> "transcript", arg |-> transcript.chars])
    /\ pc' = "save_loader"
    /\ UNCHANGED <<argv, args, logging, stderr, exit_code, exc, model, encoder,
                   audio, waveform, emission, hypothesis, transcript, scripted, fs,
                   calls>>

\* ScriptModule.save(path): the file at path holds the module.  A save that
\* raises may have created the file already, incomplete.
save(files, path, s) == (path :> [content |-> s, complete |-> TRUE]) @@ files

PartialSave(files, path, s) == (path :> [content |-> s, complete |-> FALSE]) @@ files

\* Mutant of ScriptAndSave: a save that raises is swallowed and the run goes on.
ScriptAndSave_SwallowsSaveError(m, name, tag, next) ==
    \/ /\ calls' = Append(calls, "script")
       /\ Abort("ScriptError")
       /\ UNCHANGED fs
    \/ /\ ~os_path_join(args.output_path, name).ok
       /\ calls' = calls \o <<"script", "os.path.join">>
       /\ Abort(os_path_join(args.output_path, name).exc)
       /\ UNCHANGED fs
    \/ /\ os_path_join(args.output_path, name).ok
       /\ calls' = calls \o <<"script", "os.path.join", tag>>
       /\ pc' = next
       /\ UNCHANGED <<fs, exc, exit_code, stderr>>
    \/ /\ os_path_join(args.output_path, name).ok
       /\ calls' = calls \o <<"script", "os.path.join", tag>>
       /\ fs' = save(fs, os_path_join(args.output_path, name).value, torch_jit_script(m))
       /\ pc' = next
       /\ UNCHANGED <<exc, exit_code, stderr>>

\* One statement torch.jit.script(m).save(os.path.join(args.output_path, name)):
\* Python scripts m first, then joins the path, then saves.
ScriptAndSave(m, name, tag, next) ==
    \/ /\ calls' = Append(calls, "script")
       /\ Abort("ScriptError")
       /\ UNCHANGED fs
    \/ /\ ~os_path_join(args.output_path, name).ok
       /\ calls' = calls \o <<"script", "os.path.join">>
       /\ Abort(os_path_join(args.output_path, name).exc)
       /\ UNCHANGED fs
    \/ /\ os_path_join(args.output_path, name).ok
       /\ calls' = calls \o <<"script", "os.path.join", tag>>
       /\ Abort("IOError")
       /\ \/ UNCHANGED fs
          \/ fs' = PartialSave(fs, os_path_join(args.output_path, name).value,
                               torch_jit_script(m))
    \/ /\ os_path_join(args.output_path, name).ok
       /\ calls' = calls \o <<"script", "os.path.join", tag>>
       /\ fs' = save(fs, os_path_join(args.output_path, name).value, torch_jit_script(m))
       /\ pc' = next
       /\ UNCHANGED <<exc, exit_code, stderr>>

\* The Loader and Decoder modules of _main (lines 163 and 166).
loader == [type |-> "Loader", quantized |-> FALSE]
decoder == [type |-> "Decoder", quantized |-> FALSE]

\* line 184.
SaveLoader ==
    /\ pc = "save_loader"
    /\ ScriptAndSave(loader, loader_zip, "save:loader.zip", "save_decoder")
    /\ UNCHANGED <<argv, args, logging, log, model, encoder, audio, waveform,
                   emission, hypothesis, transcript, scripted>>

\* Mutant of SaveDecoder: the Decoder is saved under the Loader's file name.
SaveDecoder_AsLoaderZip ==
    /\ pc = "save_decoder"
    /\ ScriptAndSave(decoder, loader_zip, "save:loader.zip", "script_encoder")
    /\ UNCHANGED <<argv, args, logging, log, model, encoder, audio, waveform,
                   emission, hypothesis, transcript, scripted>>

\* line 185.
SaveDecoder ==
    /\ pc = "save_decoder"
    /\ ScriptAndSave(decoder, decoder_zip, "save:decoder.zip", "script_encoder")
    /\ UNCHANGED <<argv, args, logging, log, model, encoder, audio, waveform,
                   emission, hypothesis, transcript, scripted>>

\* line 186: scripted = torch.jit.script(encoder).
ScriptEncoder ==
    /\ pc = "script_encoder"
    /\ calls' = Append(calls, "script")
    /\ \/ /\ Abort("ScriptError")
          /\ UNCHANGED scripted
       \/ /\ scripted' = torch_jit_script(encoder)
          /\ pc' = "optimize"
          /\ UNCHANGED <<exc, exit_code, stderr>>
    /\ UNCHANGED <<argv, args, logging, log, model, encoder, audio, waveform,
                   emission, hypothesis, transcript, fs>>

\* Mutant of OptimizeForMobile: the pass runs whatever the flag.
OptimizeForMobile_Always ==
    /\ pc = "optimize"
    /\ calls' = Append(calls, "optimize_for_mobile")
    /\ \/ /\ Abort("RuntimeError")
          /\ UNCHANGED scripted
       \/ /\ scripted' = optimize_for_mobile(scripted)
          /\ pc' = "save_encoder"
          /\ UNCHANGED <<exc, exit_code, stderr>>
    /\ UNCHANGED <<argv, args, logging, log, model, encoder, audio, waveform,
                   emission, hypothesis, transcript, fs>>

\* lines 187-188: the optional mobile optimization pass.
OptimizeForMobile ==
    /\ pc = "optimize"
    /\ IF args.optimize_for_mobile
       THEN /\ calls' = Append(calls, "optimize_for_mobile")
            /\ \/ /\ Abort("RuntimeError")
                  /\ UNCHANGED scripted
               \/ /\ scripted' = optimize_for_mobile(scripted)
                  /\ pc' = "save_encoder"
                  /\ UNCHANGED <<exc, exit_code, stderr>>
       ELSE /\ pc' = "save_encoder"
            /\ UNCHANGED <<calls, scripted, exc, exit_code, stderr>>
    /\ UNCHANGED <<argv, args, logging, log, model, encoder, audio, waveform,
                   emission, hypothesis, transcript, fs>>

\* line 189: scripted.save(os.path.join(args.output_path, 'encoder.zip')); then
\* _main returns and the process exits with status 0.
SaveEncoder ==
    /\ pc = "save_encoder"
    /\ \/ /\ ~os_path_join(args.output_path, encoder_zip).ok
          /\ calls' = Append(calls, "os.path.join")
          /\ Abort(os_path_join(args.output_path, encoder_zip).exc)
          /\ UNCHANGED fs
       \/ /\ os_path_join(args.output_path, encoder_zip).ok
          /\ calls' = calls \o <<"os.path.join", "save:encoder.zip">>
          /\ Abort("IOError")
          /\ \/ UNCHANGED fs
             \/ fs' = PartialSave(fs, os_path_join(args.output_path, encoder_zip).value,
                                  scripted)
       \/ /\ os_path_join(args.output_path, encoder_zip).ok
          /\ calls' = calls \o <<"os.path.join", "save:encoder.zip">>
          /\ fs' = save(fs, os_path_join(args.output_path, encoder_zip).value, scripted)
          /\ pc' = "done"
          /\ exit_code' = 0
          /\ UNCHANGED <<exc, stderr>>
    /\ UNCHANGED <<argv, args, logging, log, model, encoder, audio, waveform,
                   emission, hypothesis, transcript, scripted>>

Next ==
    \/ ParseArgs
    \/ InitLogging
    \/ GetModel
    \/ BuildStages
    \/ Quantize
    \/ TestLoad
    \/ TestEncode
    \/ TestDecode
    \/ TestLog
    \/ SaveLoader
    \/ SaveDecoder
    \/ ScriptEncoder
    \/ OptimizeForMobile
    \/ SaveEncoder

Spec == Init /\ [][Next]_vars

\* ------------------------------------------------- the Loader stage alone

\* Loader.forward is called on a file of any native rate and content.
InitLoader ==
    /\ argv = NoObject
    /\ pc = "Loader.forward"
    /\ audio \in AudioFiles
    /\ InitLocals

\* lines 66-70 on a file that decodes.
LoaderCall ==
    /\ pc = "Loader.forward"
    /\ waveform' = Loader_forward(audio).waveform
    /\ calls' = calls \o Loader_forward(audio).calls
    /\ pc' = "Loader.return"
    /\ UNCHANGED <<argv, args, logging, log, stderr, exit_code, exc, model, encoder,
                   audio, emission, hypothesis, transcript, scripted, fs>>

\* line 67 on a file torchaudio.load cannot decode: the error propagates.
LoaderRaise ==
    /\ pc = "Loader.forward"
    /\ calls' = Append(calls, "torchaudio.load")
    /\ Abort("DecodingError")
    /\ UNCHANGED <<argv, args, logging, log, model, encoder, audio, waveform,
                   emission, hypothesis, transcript, scripted, fs>>

NextLoader == LoaderCall \/ LoaderRaise

SpecLoader == InitLoader /\ [][NextLoader]_vars

\* ------------------------------------------------ the Decoder stage alone

\* Decoder.forward is called and the beam search returns any label sequence
\* over the alphabet as its best hypothesis.
InitDecoder ==
    /\ argv = NoObject
    /\ pc = "Decoder.forward"
    /\ audio = NoAudio
    /\ args = None
    /\ logging = NoObject
    /\ log = <<>>
    /\ stderr = <<>>
    /\ exit_code = -1
    /\ exc = "none"
    /\ model = NoObject
    /\ encoder = NoObject
    /\ waveform = NoWaveform
    /\ emission = NoObject
    /\ hypothesis \in SeqsUpTo(Range(labels), MaxLabels)
    /\ transcript = None
    /\ scripted = NoObject
    /\ fs = <<>>
    /\ calls = <<>>

\* lines 88-90.
DecoderCall ==
    /\ pc = "Decoder.forward"
    /\ transcript' = Decoder_forward(DecodeResult(hypothesis))
    /\ calls' = Append(calls, "decode")
    /\ pc' = "Decoder.return"
    /\ UNCHANGED <<argv, args, logging, log, stderr, exit_code, exc, model, encoder,
                   audio, waveform, emission, hypothesis, scripted, fs>>

\* line 89 when the beam search raises.
DecoderRaise ==
    /\ pc = "Decoder.forward"
    /\ calls' = Append(calls, "decode")
    /\ Abort("RuntimeError")
    /\ UNCHANGED <<argv, args, logging, log, model, encoder, audio, waveform,
                   emission, hypothesis, transcript, scripted, fs>>

NextDecoder == DecoderCall \/ DecoderRaise

SpecDecoder == InitDecoder /\ [][NextDecoder]_vars

\* ------------------------------------------------------ property helpers

Count(s, x) == Cardinality({i \in 1..Len(s) : s[i] = x})

\* Every occurrence of a precedes every occurrence of b.
AllBefore(s, a, b) == \A i, j \in 1..Len(s) : s[i] = a /\ s[j] = b => i < j

Last(s) == s[Len(s)]

\* The position of the last "/" of a character sequence, 0 when there is none.
LastSlash(cs) ==
    LET at == {i \in 1..Len(cs) : cs[i] = "/"}
    IN IF at = {} THEN 0 ELSE CHOOSE i \in at : \A j \in at : j <= i

\* os.path.basename and the directory part without its trailing "/".
Basename(path) == SubSeq(path.chars, LastSlash(path.chars) + 1, Len(path.chars))

Directory(path) == SubSeq(path.chars, 1, LastSlash(path.chars) - 1)

StripSlash(cs) ==
    IF Len(cs) > 0 /\ cs[Len(cs)] = "/" THEN SubSeq(cs, 1, Len(cs) - 1) ELSE cs

\* The names of the files written completely / written at all.
Written == {Basename(p) : p \in {q \in DOMAIN fs : fs[q].complete}}

Touched == {Basename(p) : p \in DOMAIN fs}

\* The file named name, when exactly one path of fs has that name.
FileNamed(name) == fs[CHOOSE p \in DOMAIN fs : Basename(p) = name]

\* The statements of _main in program order.
Order ==
    <<"parse_args", "init_logging", "get_model", "build_stages", "quantize",
      "test_load", "test_encode", "test_decode", "test_log", "save_loader",
      "save_decoder", "script_encoder", "optimize", "save_encoder", "done">>

Rank(p) ==
    IF p \in {"exited", "aborted"} THEN Len(Order) + 1
    ELSE CHOOSE i \in 1..Len(Order) : Order[i] = p

Terminal == {"done", "exited", "aborted"}

\* The run has got past statement p without failing.
Past(p) == pc \notin {"exited", "aborted"} /\ Rank(pc) > Rank(p)

SaveCalls == {"save:loader.zip", "save:decoder.zip", "save:encoder.zip"}

LaterCalls == {"script", "os.path.join", "optimize_for_mobile"} \cup SaveCalls

TranscriptLogged == \E i \in 1..Len(log) : log[i].msg = "transcript"

\* ------------------------------------------------------------------ claims

\* C1: without --model-file the run ends in _parse_args, the first call of
\* _main: exit status 2 (non-zero), a usage message on stderr, no file written
\* and no later step (model load, quantization, self-test, script, save) run.
C1_MissingModelFileExits ==
    /\ (calls # <<>> => calls[1] = "_parse_args")
    /\ (argv.model_file = None /\ pc # "parse_args" =>
            /\ pc = "exited"
            /\ exit_code = 2
            /\ stderr = <<"usage">>
            /\ fs = <<>>
            /\ calls = <<"_parse_args">>
            /\ log = <<>>
            /\ model = NoObject /\ encoder = NoObject /\ scripted = NoObject)

C1_Witness == argv.model_file = None /\ pc = "exited"

\* C2: a run that completes successfully has written exactly the three files
\* loader.zip, decoder.zip and encoder.zip, all in the directory output_path,
\* each saved exactly once and holding its own stage, whatever the flags.
C2_ThreeArtifacts ==
    pc = "done" =>
        /\ exit_code = 0
        /\ Cardinality(DOMAIN fs) = 3
        /\ Written = {loader_zip, decoder_zip, encoder_zip}
        /\ \A p \in DOMAIN fs :
              /\ fs[p].complete
              /\ Directory(p) = StripSlash(args.output_path.chars)
        /\ FileNamed(loader_zip).content.of = "Loader"
        /\ FileNamed(decoder_zip).content.of = "Decoder"
        /\ FileNamed(encoder_zip).content.of = "Encoder"
        /\ \A c \in SaveCalls : Count(calls, c) = 1

C2_Witness ==
    /\ pc = "done"
    /\ Truthy(args.test_file) /\ args.debug /\ args.quantize
    /\ args.optimize_for_mobile
    /\ Len(args.output_path.chars) > 0

\* C3 as stated: a successful run whose test_file is set has logged a
\* non-empty transcript.
C3_NonEmptyTranscript ==
    pc = "done" /\ Truthy(args.test_file) =>
        \E i \in 1..Len(log) : log[i].msg = "transcript" /\ log[i].arg # <<>>

\* C3 amended: once a run whose test_file is a non-empty path has started
\* scripting or saving, the Loader, Encoder and Decoder have been called in
\* that order before it, and the Decoder's transcript, which may be empty, has
\* been logged, exactly once and as the last message; so this holds of every
\* successful run.
C3_TranscriptLoggedBeforeSaves ==
    pc \notin {"parse_args", "exited"} /\ Truthy(args.test_file)
    /\ (fs # <<>> \/ Past("test_log") \/ \E c \in LaterCalls : Count(calls, c) > 0) =>
        /\ Count(calls, "loader") = 1
        /\ Count(calls, "encoder") = 1
        /\ Count(calls, "decoder") = 1
        /\ AllBefore(calls, "loader", "encoder")
        /\ AllBefore(calls, "encoder", "decoder")
        /\ \A c \in LaterCalls : AllBefore(calls, "decoder", c)
        /\ transcript = Decoder_forward(DecodeResult(hypothesis))
        /\ Cardinality({i \in 1..Len(log) : log[i].msg = "transcript"}) = 1
        /\ Last(log) = [msg |-> "transcript", arg |-> transcript.chars]

C3_Witness ==
    /\ pc = "done"
    /\ Truthy(args.test_file)
    /\ Last(log) = [msg |-> "transcript", arg |-> <<"H", " ">>]

\* C4: what Loader.forward returns is at 16000 Hz.  A file whose native rate
\* is 16000 comes back as decoded, with no resample call; any other file is
\* resampled exactly once, after the load, to ceil(16000 * n / rate) samples.
C4_LoaderOutputAt16000 ==
    pc = "Loader.return" =>
        /\ waveform.rate = 16000
        /\ Count(calls, "torchaudio.load") = 1
        /\ (audio.rate = 16000 =>
                /\ waveform.samples = audio.samples
                /\ Count(calls, "resample") = 0)
        /\ (audio.rate # 16000 =>
                /\ calls = <<"torchaudio.load", "resample">>
                /\ Len(waveform.samples) * audio.rate >= 16000 * Len(audio.samples)
                /\ (Len(waveform.samples) - 1) * audio.rate < 16000 * Len(audio.samples))

C4_Witness ==
    /\ pc = "Loader.return"
    /\ audio.rate = 48000
    /\ Len(audio.samples) = MaxSamples
    /\ Count(calls, "resample") = 1

RECURSIVE SpacedLabels(_)
\* The characters of the labels of h in order, a "|" label giving one space.
SpacedLabels(h) ==
    IF h = <<>> THEN <<>>
    ELSE (IF Head(h) = <<"|">> THEN <<" ">> ELSE Head(h)) \o SpacedLabels(Tail(h))

\* C5: the string Decoder.forward returns holds no "|": it is the labels of
\* the best hypothesis in order, each "|" label replaced by one space and all
\* other labels unchanged.
C5_NoWordBoundaryInTranscript ==
    pc = "Decoder.return" =>
        /\ transcript.type = "str"
        /\ "|" \notin Range(transcript.chars)
        /\ transcript.chars = SpacedLabels(hypothesis)

C5_Witness ==
    /\ pc = "Decoder.return"
    /\ hypothesis = << <<"|">>, <<"|">> >>
    /\ transcript = Str(<<" ", " ">>)

\* C6: a failure ends the run.  No step is taken from an ended run, every step
\* moves forward in the program order (nothing is retried), and the step that
\* fails exits with status 1 and a traceback, leaving every file written
\* before it as it was.
C6_FailureAbortsRun ==
    [][/\ pc \notin Terminal
       /\ Rank(pc') > Rank(pc)
       /\ Len(calls') >= Len(calls)
       /\ SubSeq(calls', 1, Len(calls)) = calls
       /\ (pc' = "aborted" =>
              /\ exit_code' = 1
              /\ exc' # "none"
              /\ stderr' = <<"Traceback">>
              /\ \A p \in DOMAIN fs : p \in DOMAIN fs' /\ fs'[p] = fs[p])]_vars

C6_Witness ==
    /\ pc = "aborted"
    /\ Written = {loader_zip, decoder_zip}
    /\ exc = "IOError"

\* C7: the encoder is quantized exactly when quantize is set.  The
\* quantization comes after eval() and before the self-test and every script
\* and save; the model is in inference mode from then on; and both the
\* emission of the self-test and encoder.zip come from the quantized encoder
\* when quantize is set and from the unquantized one when it is not.
C7_QuantizeIffFlag ==
    pc \notin {"parse_args", "exited"} =>
        /\ Count(calls, "quantize_dynamic") <= 1
        /\ (Count(calls, "quantize_dynamic") = 1 => args.quantize)
        /\ (Past("quantize") => (Count(calls, "quantize_dynamic") = 1 <=> args.quantize))
        /\ (Past("quantize") => encoder.quantized = args.quantize)
        /\ (model # NoObject => ~model.training)
        /\ AllBefore(calls, "eval", "quantize_dynamic")
        /\ \A c \in {"loader", "encoder", "decoder"} \cup LaterCalls :
              AllBefore(calls, "quantize_dynamic", c)
        /\ (emission # NoObject => emission.quantized = args.quantize)
        /\ (scripted # NoObject => scripted.quantized = args.quantize)
        /\ (encoder_zip \in Touched =>
                FileNamed(encoder_zip).content.quantized = args.quantize)

C7_Witness ==
    /\ pc = "done"
    /\ args.quantize
    /\ emission # NoObject /\ emission.quantized
    /\ FileNamed(encoder_zip).content.quantized

\* C8: optimize_for_mobile is called exactly when the flag is set, once, on the
\* scripted Encoder, after loader.zip and decoder.zip are written and before
\* encoder.zip is saved; encoder.zip is optimized exactly when the flag is set,
\* and loader.zip and decoder.zip hold the plain scripted Loader and Decoder
\* whatever the flag.
C8_MobileOptimizationOnlyEncoder ==
    pc \notin {"parse_args", "exited"} =>
        /\ Count(calls, "optimize_for_mobile") <= 1
        /\ (Count(calls, "optimize_for_mobile") = 1 =>
                /\ args.optimize_for_mobile
                /\ {loader_zip, decoder_zip} \subseteq Written
                /\ Count(calls, "script") = 3)
        /\ (Past("optimize") =>
                /\ (Count(calls, "optimize_for_mobile") = 1 <=> args.optimize_for_mobile)
                /\ scripted.optimized = args.optimize_for_mobile)
        /\ AllBefore(calls, "optimize_for_mobile", "save:encoder.zip")
        /\ AllBefore(calls, "save:decoder.zip", "optimize_for_mobile")
        /\ (encoder_zip \in Touched =>
                FileNamed(encoder_zip).content.optimized = args.optimize_for_mobile)
        /\ (loader_zip \in Touched =>
                FileNamed(loader_zip).content =
                    [of |-> "Loader", quantized |-> FALSE, optimized |-> FALSE])
        /\ (decoder_zip \in Touched =>
                FileNamed(decoder_zip).content =
                    [of |-> "Decoder", quantized |-> FALSE, optimized |-> FALSE])

C8_Witness ==
    /\ pc = "done"
    /\ args.optimize_for_mobile
    /\ FileNamed(encoder_zip).content.optimized
    /\ ~FileNamed(loader_zip).content.optimized

\* C9: the files written so far are always a prefix of loader.zip,
\* decoder.zip, encoder.zip: decoder.zip is touched only once loader.zip is
\* complete and encoder.zip only once both are; and a run that fails in
\* scripting the Encoder or in the mobile optimization pass leaves exactly
\* loader.zip and decoder.zip.
C9_ArtifactsFormPrefix ==
    /\ Written \in {{}, {loader_zip}, {loader_zip, decoder_zip},
                    {loader_zip, decoder_zip, encoder_zip}}
    /\ Cardinality(DOMAIN fs) = Cardinality(Touched)
    /\ (decoder_zip \in Touched => loader_zip \in Written)
    /\ (encoder_zip \in Touched => {loader_zip, decoder_zip} \subseteq Written)
    /\ (pc = "aborted" /\ Count(calls, "script") = 3
        /\ Last(calls) \in {"script", "optimize_for_mobile"} =>
            /\ Touched = {loader_zip, decoder_zip}
            /\ Written = {loader_zip, decoder_zip})

C9_Witness ==
    /\ pc = "aborted"
    /\ Last(calls) = "optimize_for_mobile"
    /\ Written = {loader_zip, decoder_zip}

\* C10: with --output-path omitted no run completes and no file is written.
\* A run whose earlier steps succeed has loaded the model, quantized it when
\* asked and run the self-test when asked, and then aborts with a TypeError in
\* the first save statement, line 184, right after scripting the Loader.
C10_NoOutputPathNeverCompletes ==
    argv.output_path = None =>
        /\ pc # "done"
        /\ ~Past("save_loader")
        /\ fs = <<>>
        /\ \A c \in SaveCalls : Count(calls, c) = 0
        /\ (pc = "save_loader" =>
                /\ Count(calls, "eval") = 1
                /\ (args.quantize <=> Count(calls, "quantize_dynamic") = 1)
                /\ (Truthy(args.test_file) <=> TranscriptLogged))
        /\ (Count(calls, "os.path.join") > 0 =>
                /\ pc = "aborted"
                /\ exc = "TypeError"
                /\ exit_code = 1
                /\ Count(calls, "script") = 1
                /\ Last(calls) = "os.path.join"
                /\ Count(calls, "os.path.join") = 1)

C10_Witness ==
    /\ argv.output_path = None
    /\ exc = "TypeError"
    /\ args.quantize
    /\ TranscriptLogged

====
